---- MODULE Spec2Model ----
\* Streaming session state machine of the voice gateway:
\* backend/app/api/websocket.py (WebSocketManager, websocket_endpoint and its
\* handlers) together with the parts of ChatService and SessionManagerService
\* that a streaming turn drives.
EXTENDS Integers, Sequences, FiniteSets, TLC

\* ---------------------------------------------------------------- bounds
MaxChunks == 2      \* chunks a client sends between two flushes
MaxSessions == 2    \* sessions ever created
MaxTurns == 2       \* turns ever started
MaxRows == 2        \* messages ever written by the one-shot paths
MaxClock == 2       \* ticks of the server clock

\* ------------------------------------------------------------- constants
MaxSizeBytes == 1   \* audio_settings.max_size_mb, scaled to the model's bytes
TimeoutTicks == 1   \* session_settings.timeout_minutes, in ticks of the clock
MaxHistory == 1     \* session_settings.max_conversation_history, scaled
NoLimit == 0 - 1    \* get_conversation_history called without a limit

\* physical links (invocations of websocket_endpoint) and the connection ids
\* their clients put in the path: the second client may reuse the first's id
Links == {1, 2}
ConnIds == {"c1", "c2"}
IdChoices(l) == IF l = 1 THEN {"c1"} ELSE ConnIds
SessionIds == 1..(MaxSessions + 1)

\* workloads explored: how many links are opened and how much the
\* clients send
Workloads ==
  { [links |-> {1}, chunks |-> <<MaxChunks, 0>>, sessions |-> 1, turns |-> 1,
     tasks |-> {}],
    [links |-> {1}, chunks |-> <<1, 0>>, sessions |-> MaxSessions, turns |-> 1,
     tasks |-> {}],
    [links |-> {1}, chunks |-> <<1, 0>>, sessions |-> 1, turns |-> MaxTurns,
     tasks |-> {}] }
DuoWorkloads ==
  { [links |-> {1, 2}, chunks |-> <<1, 0>>, sessions |-> 2, turns |-> 1] }
NoSock == 0         \* connection id absent from active_connections
NoConn == "-"       \* session id absent from session_connections
None == 0           \* Python None for the local session_id

\* base64 payloads a client may put into audio_data ("" stands for a missing
\* or empty field)
Payloads == {"", "QQ==", "Qg==", "====", "Q"}
Texts == {"", "Hello"}

\* concurrent one-shot requests, and the limits a caller may pass
Tasks == {1, 2}
Limits == {NoLimit, 0, 1, MaxRows}
\* uploads of the one-shot endpoints: the bytes and the suffix of the filename
Uploads == {<<>>, <<65>>, <<65, 66>>}
Formats == {"wav", "exe"}
SupportedFormats == {"wav", "mp3", "m4a", "webm", "mp4"}
\* workloads explored on the one-shot endpoints
RestWorkloads ==
  { [links |-> {}, chunks |-> <<0, 0>>, sessions |-> MaxSessions,
     turns |-> MaxTurns, tasks |-> {1, 2}] }
\* workloads explored on the store: one caller writing and reading
\* histories, one caller sweeping while the clock runs, two callers racing on
\* one session, and two callers writing to several sessions within one tick
StoreWorkloads ==
  { [tasks |-> {1}, rows |-> MaxRows, ticks |-> 1,
     sessions |-> MaxSessions, limits |-> Limits],
    [tasks |-> {1}, rows |-> 1, ticks |-> MaxClock,
     sessions |-> MaxSessions, limits |-> {NoLimit}],
    [tasks |-> {1, 2}, rows |-> 1, ticks |-> MaxClock,
     sessions |-> 1, limits |-> {NoLimit}],
    [tasks |-> {1, 2}, rows |-> MaxRows, ticks |-> 0,
     sessions |-> MaxSessions, limits |-> {MaxRows}] }

VARIABLES
  active_connections,   \* WebSocketManager.active_connections: conn id -> socket
  session_connections,  \* WebSocketManager.session_connections: session -> conn id
  pc,                   \* position of each link's endpoint coroutine
  connection_id,        \* path parameter of each link
  session_id,           \* local variable session_id of each endpoint
  audio_chunks,         \* local variable audio_chunks of each endpoint
  peer,                 \* transport state of each link's client
  msg,                  \* the inbound message a link is handling
  conversations,        \* table conversations: ids of the stored sessions
  messages,             \* table messages, in insertion order
  next_sid,             \* sessions created so far (uuid4 never repeats)
  nturn,                \* turns started so far
  response_text,        \* local variable response_text of the running turn
  out,                  \* history: send_message calls made for msg, in order
  calls,                \* history: port invocations made for msg, in order
  turn,                 \* history: the turn run for msg
  closed_by,            \* history: why the receive loop ended
  dropped,              \* history: disconnect() has run for the link's id
  lim,                  \* the workload being explored
  db_conversations,     \* table conversations: id -> status and updated_at
  db_messages,          \* table messages: rows in insertion order
  utcnow,               \* datetime.utcnow() of the server clock
  uuid,                 \* uuid4 values drawn for sessions so far
  task,                 \* locals of each SessionManagerService call in flight
  ret                   \* history: what the step just taken returned

vars == <<active_connections, session_connections, pc, connection_id,
          session_id, audio_chunks, peer, msg, conversations, messages,
          next_sid, nturn, response_text, out, calls, turn, closed_by, dropped,
          lim, db_conversations, db_messages, utcnow, uuid, task, ret>>
\* the streaming state and the state of the one-shot paths
wvars == <<active_connections, session_connections, pc, connection_id,
           session_id, audio_chunks, peer, msg, conversations, messages,
           next_sid, nturn, response_text, out, calls, turn, closed_by,
           dropped, lim>>
svars == <<db_conversations, db_messages, utcnow, uuid, task, ret>>

NoMsg == [type |-> "none", is_final |-> FALSE, include_audio |-> FALSE,
          text |-> ""]
NoTurn == [id |-> 0, kind |-> "none", input |-> <<>>, gen |-> "none",
           failed |-> "none"]
\* Python values held by response_text
PyNone == [kind |-> "none"]
PyStr == [kind |-> "str"]
PyTuple == [kind |-> "tuple"]

\* outbound event
Ev(type) == [type |-> type, n |-> 0, code |-> "", is_final |-> FALSE,
             message |-> ""]
Err(message, code) == [Ev("error") EXCEPT !.message = message, !.code = code]
Ack(n, fin) == [Ev("audio_chunk_received") EXCEPT !.n = n, !.is_final = fin]

StageOrder == <<"transcription_started", "transcription_completed",
                "response_generation_started", "text_response",
                "audio_generation_started", "audio_response",
                "interaction_completed">>

\* ------------------------------------------------------- pure functions

B64DecodeLenient(s) ==
  CASE s = "QQ==" -> [ok |-> TRUE, bytes |-> <<65>>]
    [] s = "Qg==" -> [ok |-> TRUE, bytes |-> <<66>>]
    [] OTHER      -> [ok |-> TRUE, bytes |-> <<>>]

\* base64.b64decode with validate=False on the payloads above
B64Decode(s) ==
  CASE s = "QQ==" -> [ok |-> TRUE, bytes |-> <<65>>]
    [] s = "Qg==" -> [ok |-> TRUE, bytes |-> <<66>>]
    [] s = "====" -> [ok |-> TRUE, bytes |-> <<>>]
    [] OTHER      -> [ok |-> FALSE, bytes |-> <<>>]

RECURSIVE JoinReversed(_)
JoinReversed(chunks) ==
  IF chunks = <<>> THEN <<>> ELSE JoinReversed(Tail(chunks)) \o Head(chunks)

\* b"".join(audio_chunks)
RECURSIVE Join(_)
Join(chunks) == IF chunks = <<>> THEN <<>> ELSE Head(chunks) \o Join(Tail(chunks))

PrependChunk(chunks, bytes) == <<bytes>> \o chunks

\* audio_chunks.append(audio_data)
AppendChunk(chunks, bytes) == Append(chunks, bytes)

\* WebSocketManager.disconnect on the two tables
DisconnectReg(reg, conn) == [reg EXCEPT ![conn] = NoSock]
DisconnectScKept(sc, conn) == sc
DisconnectSc(sc, conn) == [s \in DOMAIN sc |-> IF sc[s] = conn THEN NoConn ELSE sc[s]]

AssociateSessionSkipped(sc, sid, conn) == sc

\* WebSocketManager.associate_session
AssociateSession(sc, sid, conn) == [sc EXCEPT ![sid] = conn]

\* WebSocketManager.send_message applied to the events evs in order: an
\* unregistered id is a no-op, a gone peer makes send_text raise and runs
\* disconnect, otherwise the event is written to the registered socket.
RECURSIVE SendAll(_, _, _, _)
SendAll(reg, sc, conn, evs) ==
  IF evs = <<>> THEN [reg |-> reg, sc |-> sc, log |-> <<>>, failed |-> FALSE]
  ELSE LET sock == reg[conn]
           gone == sock # NoSock /\ peer[sock] = "gone"
           reg1 == IF gone THEN DisconnectReg(reg, conn) ELSE reg
           sc1  == IF gone THEN DisconnectSc(sc, conn) ELSE sc
           to   == IF gone THEN NoSock ELSE sock
           r    == SendAll(reg1, sc1, conn, Tail(evs))
       IN [reg |-> r.reg, sc |-> r.sc,
           log |-> <<[ev |-> Head(evs), to |-> to]>> \o r.log,
           failed |-> gone \/ r.failed]

\* the stage a suspended turn is in
StageOf(p) ==
  CASE p = "validate" -> "validate"
    [] p = "transcribe" -> "transcribe"
    [] p \in {"generate", "add_user", "add_assistant"} -> "generate"
    [] p = "synthesize" -> "synthesize"
    [] OTHER -> "none"

\* events sent once validate_audio has returned
OnValidated == <<Ev("transcription_started")>>

OnTranscribedSwapped == <<Ev("response_generation_started"),
                          Ev("transcription_completed")>>

\* events sent once transcribe_audio has returned
OnTranscribed == <<Ev("transcription_completed"),
                   Ev("response_generation_started")>>

\* events sent once generate_response has returned
OnGenerated(kind) ==
  IF kind = "audio"
  THEN <<Ev("text_response"), Ev("audio_generation_started")>>
  ELSE <<Ev("text_response")>>

\* events sent once synthesize_speech has returned
OnSynthesized(kind) ==
  IF kind = "audio"
  THEN <<Ev("audio_response"), Ev("interaction_completed")>>
  ELSE <<Ev("audio_response")>>

OnFailureTwice(kind, code) ==
  IF kind = "audio" THEN <<Err("str(e)", code), Err("Audio processing error", "")>>
  ELSE <<Err("Text processing error", ""), Err("str(e)", "")>>

\* the except clauses of the two turn handlers: process_complete_audio
\* reports the service's error code, handle_text_message reports
\* "Text processing error"
OnFailure(kind, code) ==
  IF kind = "audio" THEN <<Err("str(e)", code)>>
  ELSE <<Err("Text processing error", "")>>

\* what the caller of the turn sends after it: handle_audio_chunk acknowledges
\* with the length of the cleared list
AfterTurn(m) ==
  IF m.type = "audio_chunk" THEN <<Ack(0, m.is_final)>> ELSE <<>>

\* rows and locals of the one-shot paths
NoRow == [status |-> "none", updated_at |-> 0]
\* A Python float (IEEE 754 binary64) in [0, 2) is held exactly, as
\* hi * Limb + lo units of 2^-56 with lo < Limb.
Limb == 268435456
Float(hi, lo) == [hi |-> hi, lo |-> lo]
Zero == Float(0, 0)
Half == Float(134217728, 0)
One == Float(Limb, 0)
\* 0.1 is 0x1.999999999999ap-4 and 0.2 is 0x1.999999999999ap-3
Tenth == Float(26843545, 161061274)
Fifth == Float(53687091, 53687092)
Leq(a, b) == a.hi < b.hi \/ (a.hi = b.hi /\ a.lo <= b.lo)
\* min(a, b) and max(a, b) of Python
FMin(a, b) == IF Leq(a, b) THEN a ELSE b
FMax(a, b) == IF Leq(b, a) THEN a ELSE b
\* a + b for a sum in [0.5, 2): the exact sum rounded to the nearest float,
\* ties to the even mantissa; u is the spacing of the floats around the sum
FAdd(a, b) ==
  LET lo == a.lo + b.lo
      hi == a.hi + b.hi + (lo \div Limb)
      l == lo % Limb
      u == IF hi >= Limb THEN 16 ELSE 8
      r == l % u
      down == l - r
      up == (2 * r > u) \/ (2 * r = u /\ (down \div u) % 2 = 1)
      l2 == IF up THEN down + u ELSE down
  IN Float(hi + (l2 \div Limb), l2 % Limb)

\* the arguments of a call of a service method that takes no session
NoArgs == [text |-> [len |-> 0, blank |-> TRUE], voice |-> PyNone]
NoTask == [op |-> "none", sid |-> None, ts |-> 0, seen |-> {}, expiry |-> 0,
           pc |-> "idle", audio |-> <<>>, format |-> "", calls |-> <<>>,
           made |-> None, args |-> NoArgs, voice |-> ""]
NoRet == [op |-> "none", sid |-> None, limit |-> NoLimit,
          found |-> FALSE, hist |-> <<>>, count |-> 0, err |-> "",
          http |-> 0, calls |-> <<>>, made |-> None, args |-> NoArgs,
          voice |-> "", confidence |-> Zero]

\* ---------------------------------------------------------------- state
Start ==
  /\ active_connections = [c \in ConnIds |-> NoSock]
  /\ session_connections = [s \in SessionIds |-> NoConn]
  /\ pc = [l \in Links |-> "init"]
  /\ connection_id = [l \in Links |-> NoConn]
  /\ session_id = [l \in Links |-> None]
  /\ audio_chunks = [l \in Links |-> <<>>]
  /\ peer = [l \in Links |-> "up"]
  /\ msg = [l \in Links |-> NoMsg]
  /\ conversations = {}
  /\ messages = <<>>
  /\ next_sid = 0
  /\ nturn = 0
  /\ response_text = [l \in Links |-> PyNone]
  /\ out = [l \in Links |-> <<>>]
  /\ calls = [l \in Links |-> <<>>]
  /\ turn = [l \in Links |-> NoTurn]
  /\ closed_by = [l \in Links |-> "open"]
  /\ dropped = [l \in Links |-> FALSE]
  /\ db_conversations = [s \in SessionIds |-> NoRow]
  /\ db_messages = <<>>
  /\ utcnow = 0
  /\ uuid = 0
  /\ task = [t \in Tasks |-> NoTask]
  /\ ret = NoRet

Init == Start /\ lim \in Workloads
InitDuo == Start /\ lim \in DuoWorkloads

ReadyAnytime(l) ==
  (\A k \in Links : pc[k] # "done") /\ pc[l] \notin {"init", "closed", "done"}

\* A handler that has returned ("done") reaches the next receive_text without
\* an await in between: no other coroutine runs before LoopBack.
Quiet == \A l \in Links : pc[l] # "done"

\* link l is the coroutine that runs next, resumed at position p
At(l, p) == Quiet /\ pc[l] = p

\* the receive loop is suspended in `await websocket.receive_text()`
Ready(l) == At(l, "recv")

\* send the events evs for link l after the sends already logged in prev;
\* closing adds the disconnect() of the endpoint's except clauses
Deliver(l, prev, evs, closing) ==
  LET c == connection_id[l]
      r == SendAll(active_connections, session_connections, c, evs)
  IN /\ active_connections' = IF closing THEN DisconnectReg(r.reg, c) ELSE r.reg
     /\ session_connections' = IF closing THEN DisconnectSc(r.sc, c) ELSE r.sc
     /\ out' = [out EXCEPT ![l] = prev \o r.log]
     /\ dropped' = [dropped EXCEPT ![l] = @ \/ r.failed \/ closing]

\* the endpoint coroutine returns: its locals are gone
EndLoop(l, why) ==
  /\ pc' = [pc EXCEPT ![l] = "closed"]
  /\ closed_by' = [closed_by EXCEPT ![l] = why]
  /\ session_id' = [session_id EXCEPT ![l] = None]
  /\ audio_chunks' = [audio_chunks EXCEPT ![l] = <<>>]

\* WebSocketManager.connect
Connect(l, c) ==
  /\ At(l, "init")
  /\ l \in lim.links
  /\ peer[l] = "up"
  /\ active_connections' = [active_connections EXCEPT ![c] = l]
  /\ connection_id' = [connection_id EXCEPT ![l] = c]
  /\ pc' = [pc EXCEPT ![l] = "recv"]
  /\ UNCHANGED <<session_connections, session_id, audio_chunks, peer, msg,
                 conversations, messages, next_sid, nturn, response_text,
                 out, calls, turn, closed_by, dropped, lim, svars>>

\* the client of link l goes away
PeerGone(l) ==
  /\ Quiet
  /\ pc[l] \notin {"init", "closed"}
  /\ peer[l] = "up"
  /\ peer' = [peer EXCEPT ![l] = "gone"]
  /\ UNCHANGED <<active_connections, session_connections, pc, connection_id,
                 session_id, audio_chunks, msg, conversations, messages,
                 next_sid, nturn, response_text, out, calls, turn, closed_by,
                 dropped, lim, svars>>

\* receive_text raises WebSocketDisconnect
RecvDisconnect(l) ==
  /\ Ready(l)
  /\ peer[l] = "gone"
  /\ msg' = [msg EXCEPT ![l] = NoMsg]
  /\ Deliver(l, <<>>, <<>>, TRUE)
  /\ EndLoop(l, "transport")
  /\ calls' = [calls EXCEPT ![l] = <<>>]
  /\ turn' = [turn EXCEPT ![l] = NoTurn]
  /\ response_text' = [response_text EXCEPT ![l] = PyNone]
  /\ UNCHANGED <<lim, svars, connection_id, peer, conversations, messages, next_sid, nturn>>

\* json.loads raises, or the frame is not a JSON object: except Exception
RecvMalformed(l) ==
  /\ Ready(l)
  /\ msg' = [msg EXCEPT ![l] = [NoMsg EXCEPT !.type = "malformed"]]
  /\ Deliver(l, <<>>, <<Err("str(e)", "")>>, TRUE)
  /\ EndLoop(l, "error")
  /\ calls' = [calls EXCEPT ![l] = <<>>]
  /\ turn' = [turn EXCEPT ![l] = NoTurn]
  /\ response_text' = [response_text EXCEPT ![l] = PyNone]
  /\ UNCHANGED <<lim, svars, connection_id, peer, conversations, messages, next_sid, nturn>>

\* a handler that sends evs, runs no turn and returns to the loop
Reply(l, m, evs) ==
  /\ msg' = [msg EXCEPT ![l] = m]
  /\ Deliver(l, <<>>, evs, FALSE)
  /\ pc' = [pc EXCEPT ![l] = "done"]
  /\ calls' = [calls EXCEPT ![l] = <<>>]
  /\ turn' = [turn EXCEPT ![l] = NoTurn]
  /\ response_text' = [response_text EXCEPT ![l] = PyNone]
  /\ UNCHANGED <<lim, svars, connection_id, peer, closed_by>>

RecvPingFlushes(l) ==
  /\ Ready(l)
  /\ Reply(l, [NoMsg EXCEPT !.type = "ping"], <<Ev("pong")>>)
  /\ audio_chunks' = [audio_chunks EXCEPT ![l] = <<>>]
  /\ UNCHANGED <<session_id, conversations, messages, next_sid, nturn>>

\* ping branch
RecvPing(l) ==
  /\ Ready(l)
  /\ Reply(l, [NoMsg EXCEPT !.type = "ping"], <<Ev("pong")>>)
  /\ UNCHANGED <<session_id, audio_chunks, conversations, messages, next_sid, nturn>>

RecvUnknownCloses(l) ==
  /\ Ready(l)
  /\ msg' = [msg EXCEPT ![l] = [NoMsg EXCEPT !.type = "frobnicate"]]
  /\ Deliver(l, <<>>, <<Err("Unknown message type", "")>>, TRUE)
  /\ EndLoop(l, "error")
  /\ calls' = [calls EXCEPT ![l] = <<>>]
  /\ turn' = [turn EXCEPT ![l] = NoTurn]
  /\ response_text' = [response_text EXCEPT ![l] = PyNone]
  /\ UNCHANGED <<lim, svars, connection_id, peer, conversations, messages, next_sid, nturn>>

\* else branch: unknown message type
RecvUnknown(l) ==
  /\ Ready(l)
  /\ Reply(l, [NoMsg EXCEPT !.type = "frobnicate"],
           <<Err("Unknown message type", "")>>)
  /\ UNCHANGED <<session_id, audio_chunks, conversations, messages, next_sid, nturn>>


\* initialize_session: create_session, associate_session, session_initialized;
\* a failing create_session raises SessionError into except Exception
RecvInitializeSession(l) ==
  /\ Ready(l)
  /\ next_sid < lim.sessions
  /\ LET m == [NoMsg EXCEPT !.type = "initialize_session"]
         sid == next_sid + 1
         c == connection_id[l]
         r == SendAll(active_connections,
                      AssociateSession(session_connections, sid, c), c,
                      <<[Ev("session_initialized") EXCEPT !.n = sid]>>)
     IN \/ /\ conversations' = conversations \cup {sid}
           /\ next_sid' = sid
           /\ session_id' = [session_id EXCEPT ![l] = sid]
           /\ msg' = [msg EXCEPT ![l] = m]
           /\ active_connections' = r.reg
           /\ session_connections' = r.sc
           /\ out' = [out EXCEPT ![l] = r.log]
           /\ dropped' = [dropped EXCEPT ![l] = @ \/ r.failed]
           /\ pc' = [pc EXCEPT ![l] = "done"]
           /\ UNCHANGED <<audio_chunks, closed_by>>
        \/ /\ msg' = [msg EXCEPT ![l] = m]
           /\ Deliver(l, <<>>, <<Err("str(e)", "")>>, TRUE)
           /\ EndLoop(l, "error")
           /\ UNCHANGED <<conversations, next_sid>>
  /\ calls' = [calls EXCEPT ![l] = <<>>]
  /\ turn' = [turn EXCEPT ![l] = NoTurn]
  /\ response_text' = [response_text EXCEPT ![l] = PyNone]
  /\ UNCHANGED <<lim, svars, connection_id, peer, messages, nturn>>

\* process_complete_audio is entered with the chunks: an empty join returns
\* at once, otherwise the turn starts at validate_audio
BeginAudio(l, m, chunks) ==
  LET combined == Join(chunks)
  IN IF combined = <<>>
     THEN /\ Reply(l, m, AfterTurn(m))
          /\ audio_chunks' = [audio_chunks EXCEPT ![l] = <<>>]
          /\ UNCHANGED nturn
     ELSE /\ nturn < lim.turns
          /\ nturn' = nturn + 1
          /\ msg' = [msg EXCEPT ![l] = m]
          /\ turn' = [turn EXCEPT ![l] = [NoTurn EXCEPT !.id = nturn + 1,
                                          !.kind = "audio", !.input = combined]]
          /\ audio_chunks' = [audio_chunks EXCEPT ![l] = chunks]
          /\ pc' = [pc EXCEPT ![l] = "validate"]
          /\ out' = [out EXCEPT ![l] = <<>>]
          /\ calls' = [calls EXCEPT ![l] = <<>>]
          /\ response_text' = [response_text EXCEPT ![l] = PyNone]
          /\ UNCHANGED <<active_connections, session_connections, dropped,
                         lim, svars, connection_id, peer, closed_by>>

FlushesUnbound(l, fin) == fin

\* `if is_final and session_id:`
Flushes(l, fin) == fin /\ session_id[l] # None

\* handle_audio_chunk
RecvAudioChunk(l, data, fin) ==
  /\ Ready(l)
  /\ Len(audio_chunks[l]) < lim.chunks[l]
  /\ LET m == [NoMsg EXCEPT !.type = "audio_chunk", !.is_final = fin]
         d == B64Decode(data)
         chunks == AppendChunk(audio_chunks[l], d.bytes)
     IN IF data = ""
        THEN /\ Reply(l, m, <<Err("No audio data provided", "")>>)
             /\ UNCHANGED <<audio_chunks, nturn>>
        ELSE IF ~d.ok
        THEN /\ Reply(l, m, <<Err("Audio processing error", "")>>)
             /\ UNCHANGED <<audio_chunks, nturn>>
        ELSE IF Flushes(l, fin)
        THEN BeginAudio(l, m, chunks)
        ELSE /\ Reply(l, m, <<Ack(Len(chunks), fin)>>)
             /\ audio_chunks' = [audio_chunks EXCEPT ![l] = chunks]
             /\ UNCHANGED nturn
  /\ UNCHANGED <<session_id, conversations, messages, next_sid>>

\* end_audio
RecvEndAudio(l) ==
  /\ Ready(l)
  /\ LET m == [NoMsg EXCEPT !.type = "end_audio"]
     IN IF audio_chunks[l] # <<>> /\ session_id[l] # None
        THEN BeginAudio(l, m, audio_chunks[l])
        ELSE /\ Reply(l, m, <<>>)
             /\ audio_chunks' = [audio_chunks EXCEPT ![l] = <<>>]
             /\ UNCHANGED nturn
  /\ UNCHANGED <<session_id, conversations, messages, next_sid>>

RecvTextMessageUnguarded(l, text, incl) ==
  /\ Ready(l)
  /\ nturn < lim.turns
  /\ nturn' = nturn + 1
  /\ msg' = [msg EXCEPT ![l] = [NoMsg EXCEPT !.type = "text_message",
                                             !.include_audio = incl,
                                             !.text = text]]
  /\ turn' = [turn EXCEPT ![l] = [NoTurn EXCEPT !.id = nturn + 1, !.kind = "text"]]
  /\ pc' = [pc EXCEPT ![l] = "generate"]
  /\ out' = [out EXCEPT ![l] = <<>>]
  /\ calls' = [calls EXCEPT ![l] = <<>>]
  /\ response_text' = [response_text EXCEPT ![l] = PyNone]
  /\ UNCHANGED <<active_connections, session_connections, dropped, lim, svars,
                 connection_id, peer, closed_by, session_id, audio_chunks,
                 conversations, messages, next_sid>>

\* handle_text_message up to the call of generate_response
RecvTextMessage(l, text, incl) ==
  /\ Ready(l)
  /\ LET m == [NoMsg EXCEPT !.type = "text_message", !.include_audio = incl,
                            !.text = text]
     IN IF text = "" \/ session_id[l] = None
        THEN /\ Reply(l, m, <<Err("No text provided or session not initialized", "")>>)
             /\ UNCHANGED nturn
        ELSE /\ nturn < lim.turns
             /\ nturn' = nturn + 1
             /\ msg' = [msg EXCEPT ![l] = m]
             /\ turn' = [turn EXCEPT ![l] = [NoTurn EXCEPT !.id = nturn + 1,
                                             !.kind = "text"]]
             /\ pc' = [pc EXCEPT ![l] = "generate"]
             /\ out' = [out EXCEPT ![l] = <<>>]
             /\ calls' = [calls EXCEPT ![l] = <<>>]
             /\ response_text' = [response_text EXCEPT ![l] = PyNone]
             /\ UNCHANGED <<active_connections, session_connections, dropped,
                            lim, svars, connection_id, peer, closed_by>>
  /\ UNCHANGED <<session_id, audio_chunks, conversations, messages, next_sid>>


\* ------------------------------------------------------------ turn steps
InTurn(l) == pc[l] \in {"validate", "transcribe", "generate", "add_user",
                        "add_assistant", "synthesize"}

FinishKeeps(l, evs) ==
  /\ Deliver(l, out[l], evs \o AfterTurn(msg[l]), FALSE)
  /\ pc' = [pc EXCEPT ![l] = "done"]
  /\ UNCHANGED audio_chunks

\* the turn returns after sending evs; the audio callers empty the list
Finish(l, evs) ==
  /\ Deliver(l, out[l], evs \o AfterTurn(msg[l]), FALSE)
  /\ audio_chunks' = [audio_chunks EXCEPT
                        ![l] = IF turn[l].kind = "audio" THEN <<>> ELSE @]
  /\ pc' = [pc EXCEPT ![l] = "done"]

\* a stage raised
TurnFails(l, code) ==
  /\ turn' = [turn EXCEPT ![l].failed = StageOf(pc[l]),
                          ![l].gen = IF StageOf(pc[l]) = "generate"
                                     THEN "failed" ELSE @]
  /\ Finish(l, OnFailure(turn[l].kind, code))

\* a stage succeeded: send evs and go on to the next stage
Advance(l, evs, next) ==
  /\ Deliver(l, out[l], evs, FALSE)
  /\ pc' = [pc EXCEPT ![l] = next]
  /\ UNCHANGED audio_chunks

Called(l, port) == calls' = [calls EXCEPT ![l] = Append(@, port)]

\* AudioProcessorService.validate_audio(combined_audio, "wav")
ValidateOutcomes(audio) ==
  IF Len(audio) > MaxSizeBytes THEN {"FILE_TOO_LARGE"}
  ELSE {"ok", "VALIDATION_ERROR", "AUDIO_TOO_LONG"}

ValidateAudio(l) ==
  /\ At(l, "validate")
  /\ Called(l, "validate_audio")
  /\ \E r \in ValidateOutcomes(turn[l].input) :
       IF r = "ok"
       THEN Advance(l, OnValidated, "transcribe") /\ UNCHANGED turn
       ELSE TurnFails(l, r)
  /\ UNCHANGED <<lim, svars, connection_id, session_id, peer, msg, conversations, messages,
                 next_sid, nturn, response_text, closed_by>>

\* SpeechToTextService.transcribe_audio
TranscribeAudio(l) ==
  /\ At(l, "transcribe")
  /\ Called(l, "transcribe_audio")
  /\ \E r \in {"ok", "TRANSCRIPTION_ERROR", "RATE_LIMIT_EXCEEDED"} :
       IF r = "ok"
       THEN Advance(l, OnTranscribed, "generate") /\ UNCHANGED turn
       ELSE TurnFails(l, r)
  /\ UNCHANGED <<lim, svars, connection_id, session_id, peer, msg, conversations, messages,
                 next_sid, nturn, response_text, closed_by>>

\* generate_response goes on to its next await
GenerateGoesOn(l, next) ==
  /\ pc' = [pc EXCEPT ![l] = next]
  /\ UNCHANGED <<active_connections, session_connections, out, dropped,
                 audio_chunks, response_text, turn>>

\* ChatService.generate_response: history read and engine call; every
\* exception leaves as GPTServiceError or RateLimitError
Generate(l) ==
  /\ At(l, "generate")
  /\ Called(l, "generate_response")
  /\ \E r \in {"ok", "RESPONSE_GENERATION_ERROR", "RATE_LIMIT_EXCEEDED"} :
       IF r = "ok" THEN GenerateGoesOn(l, "add_user")
       ELSE TurnFails(l, r) /\ UNCHANGED response_text
  /\ UNCHANGED <<lim, svars, connection_id, session_id, peer, msg, conversations, messages,
                 next_sid, nturn, closed_by>>

AddMessageUncommitted(msgs, sid, type, t) == msgs

\* SessionManagerService.add_message: the row appended by one commit
AddMessage(msgs, sid, type, t) ==
  Append(msgs, [session_id |-> sid, type |-> type, turn |-> t])

\* generate_response: add_message(session_id, MessageType.USER, ...); it
\* raises when the session is missing or the commit fails
AddUser(l) ==
  /\ At(l, "add_user")
  /\ \/ /\ session_id[l] \in conversations
        /\ messages' = AddMessage(messages, session_id[l], "user", turn[l].id)
        /\ GenerateGoesOn(l, "add_assistant")
     \/ /\ TurnFails(l, "RESPONSE_GENERATION_ERROR")
        /\ UNCHANGED <<messages, response_text>>
  /\ UNCHANGED <<lim, svars, connection_id, session_id, peer, msg, conversations,
                 next_sid, nturn, closed_by, calls>>

\* generate_response: add_message(session_id, MessageType.ASSISTANT, ...) and
\* return (assistant_response, assistant_message_id); the handler keeps the
\* returned value as response_text, sends text_response and goes on
AddAssistant(l) ==
  /\ At(l, "add_assistant")
  /\ \/ /\ session_id[l] \in conversations
        /\ messages' = AddMessage(messages, session_id[l], "assistant", turn[l].id)
        /\ turn' = [turn EXCEPT ![l].gen = "ok"]
        /\ response_text' = [response_text EXCEPT ![l] = PyTuple]
        /\ IF turn[l].kind = "audio" \/ msg[l].include_audio
           THEN Advance(l, OnGenerated(turn[l].kind), "synthesize")
           ELSE Finish(l, OnGenerated(turn[l].kind))
     \/ /\ TurnFails(l, "RESPONSE_GENERATION_ERROR")
        /\ UNCHANGED <<messages, response_text>>
  /\ UNCHANGED <<lim, svars, connection_id, session_id, peer, msg, conversations,
                 next_sid, nturn, closed_by, calls>>

\* TextToSpeechService.synthesize_speech(text, ...): text.strip() exists only
\* on a str, anything else raises inside the try and leaves as SYNTHESIS_ERROR
SynthesizeOutcomes(text) ==
  IF text.kind = "str" THEN {"ok", "SYNTHESIS_ERROR", "RATE_LIMIT_EXCEEDED"}
  ELSE {"SYNTHESIS_ERROR"}

Synthesize(l) ==
  /\ At(l, "synthesize")
  /\ Called(l, "synthesize_speech")
  /\ \E r \in SynthesizeOutcomes(response_text[l]) :
       IF r = "ok"
       THEN Finish(l, OnSynthesized(turn[l].kind)) /\ UNCHANGED turn
       ELSE TurnFails(l, r)
  /\ UNCHANGED <<lim, svars, connection_id, session_id, peer, msg, conversations, messages,
                 next_sid, nturn, response_text, closed_by>>

\* SessionManagerService.delete_session, reached from DELETE /sessions/{id}:
\* a bulk DELETE on conversations
DeleteSession(s) ==
  /\ Quiet
  /\ s \in conversations
  /\ conversations' = conversations \ {s}
  /\ UNCHANGED <<active_connections, session_connections, pc, connection_id,
                 session_id, audio_chunks, peer, msg, messages, next_sid, nturn,
                 response_text, out, calls, turn, closed_by, dropped, lim, svars>>

\* `while True`: back to receive_text; the histories of the handled message
\* are forgotten
LoopBack(l) ==
  /\ pc[l] = "done"
  /\ pc' = [pc EXCEPT ![l] = "recv"]
  /\ msg' = [msg EXCEPT ![l] = NoMsg]
  /\ out' = [out EXCEPT ![l] = <<>>]
  /\ calls' = [calls EXCEPT ![l] = <<>>]
  /\ turn' = [turn EXCEPT ![l] = NoTurn]
  /\ response_text' = [response_text EXCEPT ![l] = PyNone]
  /\ UNCHANGED <<active_connections, session_connections, connection_id,
                 session_id, audio_chunks, peer, conversations, messages,
                 next_sid, nturn, closed_by, dropped, lim, svars>>

Next ==
  \/ \E l \in Links : LoopBack(l)
  \/ \E l \in Links : \E c \in IdChoices(l) : Connect(l, c)
  \/ \E l \in Links : PeerGone(l)
  \/ \E l \in Links : RecvDisconnect(l)
  \/ \E l \in Links : RecvMalformed(l)
  \/ \E l \in Links : RecvPing(l)
  \/ \E l \in Links : RecvUnknown(l)
  \/ \E l \in Links : RecvInitializeSession(l)
  \/ \E l \in Links, d \in Payloads, f \in BOOLEAN : RecvAudioChunk(l, d, f)
  \/ \E l \in Links : RecvEndAudio(l)
  \/ \E l \in Links, t \in Texts, a \in BOOLEAN : RecvTextMessage(l, t, a)
  \/ \E l \in Links : ValidateAudio(l)
  \/ \E l \in Links : TranscribeAudio(l)
  \/ \E l \in Links : Generate(l)
  \/ \E l \in Links : AddUser(l)
  \/ \E l \in Links : AddAssistant(l)
  \/ \E l \in Links : Synthesize(l)
  \/ \E s \in SessionIds : DeleteSession(s)

Spec == Init /\ [][Next]_vars
SpecDuo == InitDuo /\ [][Next]_vars

\* ------------------------------------------- SessionManagerService, alone
\* Each statement a call awaits is one step, so that other calls may run
\* between a call's SELECT and its writes. The database is the default one
\* (sqlite+aiosqlite), which does not enforce foreign keys.
Exists(s) == db_conversations[s].status # "none"
Idle(t) == t \in lim.tasks /\ task[t].op = "none"
Returned(t, op, s) == [NoRet EXCEPT !.op = op, !.sid = s]
\* `except Exception`: the call raises SessionError(code), nothing committed
Raises(t, op, s, code) ==
  /\ ret' = [Returned(t, op, s) EXCEPT !.err = code]
  /\ task' = [task EXCEPT ![t] = NoTask]
  /\ UNCHANGED <<db_conversations, db_messages, utcnow, uuid>>

\* WHERE Message.session_id == session_id
RowsOfAll(s) == 1..Len(db_messages)
RowsOf(s) == {i \in 1..Len(db_messages) : db_messages[i].session_id = s}
\* ORDER BY Message.timestamp DESC: every order of the rows that does not
\* ascend; rows of equal timestamp come in an order the database chooses
DescOrders(rows) ==
  {q \in [1..Cardinality(rows) -> rows] :
     /\ \A i, j \in DOMAIN q : i # j => q[i] # q[j]
     /\ \A i, j \in DOMAIN q :
          i < j => db_messages[q[i]].timestamp >= db_messages[q[j]].timestamp}
\* `limit or max_conversation_history`
EffectiveLimit(limit) == IF limit = NoLimit \/ limit = 0 THEN MaxHistory ELSE limit
Min(a, b) == IF a < b THEN a ELSE b
\* .limit(limit)
FirstRows(q, n) == SubSeq(q, 1, Min(n, Len(q)))
\* reversed(messages_db)
Reversed(q) == [i \in 1..Len(q) |-> q[Len(q) + 1 - i]]
\* the lists get_conversation_history may return
Histories(s, limit) ==
  {Reversed(FirstRows(q, EffectiveLimit(limit))) : q \in DescOrders(RowsOf(s))}

\* Conversation.updated_at < expiry_time, Conversation.status == ACTIVE
Stale(s, expiry_time) ==
  /\ db_conversations[s].status = "active"
  /\ db_conversations[s].updated_at < expiry_time

create_session(t) ==
  /\ Idle(t)
  /\ uuid < lim.sessions
  /\ \/ /\ db_conversations' = [db_conversations EXCEPT ![uuid + 1] =
                                 [status |-> "active", updated_at |-> utcnow]]
        /\ uuid' = uuid + 1
        /\ ret' = Returned(t, "create_session", uuid + 1)
        /\ UNCHANGED <<db_messages, utcnow, task>>
     \/ Raises(t, "create_session", None, "SESSION_CREATION_ERROR")
  /\ UNCHANGED wvars

get_session(t, s) ==
  /\ Idle(t)
  /\ \/ /\ ret' = [Returned(t, "get_session", s) EXCEPT !.found = Exists(s)]
        /\ UNCHANGED <<db_conversations, db_messages, utcnow, uuid, task>>
     \/ Raises(t, "get_session", s, "SESSION_RETRIEVAL_ERROR")
  /\ UNCHANGED wvars

\* delete(Conversation).where(Conversation.id == session_id): the rows of
\* table messages are not touched
delete_session(t, s) ==
  /\ Idle(t)
  /\ \/ /\ db_conversations' = [db_conversations EXCEPT ![s] = NoRow]
        /\ ret' = Returned(t, "delete_session", s)
        /\ UNCHANGED <<db_messages, utcnow, uuid, task>>
     \/ Raises(t, "delete_session", s, "SESSION_DELETION_ERROR")
  /\ UNCHANGED wvars

\* add_message up to `if not conversation`; the timestamps of the message and
\* of the session are taken before the writes are awaited
InFlightAdds == Cardinality({t \in Tasks : task[t].op = "add_message"})
add_message(t, s) ==
  /\ Idle(t)
  /\ Len(db_messages) + InFlightAdds < lim.rows
  /\ IF Exists(s)
       THEN /\ task' = [task EXCEPT ![t] = [NoTask EXCEPT !.op = "add_message",
                                              !.sid = s, !.ts = utcnow]]
            /\ ret' = NoRet
            /\ UNCHANGED <<db_conversations, db_messages, utcnow, uuid>>
       ELSE Raises(t, "add_message", s, "SESSION_NOT_FOUND")
  /\ UNCHANGED wvars

\* add_message from db_session.add(message) to the commit
add_message_commit(t) ==
  /\ task[t].op = "add_message"
  /\ \/ /\ db_messages' = Append(db_messages, [session_id |-> task[t].sid,
                                               timestamp |-> task[t].ts])
        /\ db_conversations' =
             IF Exists(task[t].sid)
               THEN [db_conversations EXCEPT ![task[t].sid].updated_at = task[t].ts]
               ELSE db_conversations
        /\ task' = [task EXCEPT ![t] = NoTask]
        /\ ret' = Returned(t, "add_message", task[t].sid)
        /\ UNCHANGED <<utcnow, uuid>>
     \/ Raises(t, "add_message", task[t].sid, "MESSAGE_ADDITION_ERROR")
  /\ UNCHANGED wvars

get_conversation_history(t, s, limit) ==
  /\ Idle(t)
  /\ limit \in lim.limits
  /\ \/ /\ \E h \in Histories(s, limit) :
             ret' = [Returned(t, "get_conversation_history", s) EXCEPT
                       !.limit = limit, !.hist = h]
        /\ UNCHANGED <<db_conversations, db_messages, utcnow, uuid, task>>
     \/ Raises(t, "get_conversation_history", s, "HISTORY_RETRIEVAL_ERROR")
  /\ UNCHANGED wvars

\* cleanup_expired_sessions up to `expired_sessions = result.scalars().all()`
cleanup_expired_sessions(t) ==
  /\ Idle(t)
  /\ LET expiry_time == utcnow - TimeoutTicks IN
       task' = [task EXCEPT ![t] =
                  [NoTask EXCEPT !.op = "cleanup_expired_sessions",
                                 !.expiry = expiry_time,
                                 !.seen = {s \in SessionIds : Stale(s, expiry_time)}]]
  /\ ret' = NoRet
  /\ UNCHANGED <<db_conversations, db_messages, utcnow, uuid>>
  /\ UNCHANGED wvars

\* the loop of UPDATEs and the commit; updated_at has onupdate=datetime.utcnow
cleanup_mark(t) ==
  /\ task[t].op = "cleanup_expired_sessions"
  /\ \/ /\ db_conversations' =
             [s \in SessionIds |->
                IF s \in task[t].seen /\ Exists(s)
                  THEN [status |-> "expired", updated_at |-> utcnow]
                  ELSE db_conversations[s]]
        /\ task' = [task EXCEPT ![t] = NoTask]
        /\ ret' = [Returned(t, "cleanup_expired_sessions", None) EXCEPT
                     !.count = Cardinality(task[t].seen)]
        /\ UNCHANGED <<db_messages, utcnow, uuid>>
     \/ Raises(t, "cleanup_expired_sessions", None, "CLEANUP_ERROR")
  /\ UNCHANGED wvars

\* time passes
Tick ==
  /\ utcnow < lim.ticks
  /\ utcnow' = utcnow + 1
  /\ ret' = NoRet
  /\ UNCHANGED <<db_conversations, db_messages, uuid, task>>
  /\ UNCHANGED wvars

InitStore == Start /\ lim \in StoreWorkloads
NextStore ==
  \/ \E t \in Tasks : create_session(t)
  \/ \E t \in Tasks, s \in SessionIds : get_session(t, s)
  \/ \E t \in Tasks, s \in SessionIds : delete_session(t, s)
  \/ \E t \in Tasks, s \in SessionIds : add_message(t, s)
  \/ \E t \in Tasks : add_message_commit(t)
  \/ \E t \in Tasks, s \in SessionIds, n \in Limits : get_conversation_history(t, s, n)
  \/ \E t \in Tasks : cleanup_expired_sessions(t)
  \/ \E t \in Tasks : cleanup_mark(t)
  \/ Tick
SpecStore == InitStore /\ [][NextStore]_vars

\* ------------------------------------------------- one-shot endpoints
\* POST /voice-interaction and POST /speech-to-text of api/endpoints.py, one
\* step per awaited call, on the tables the streaming turns use.
streamvars == <<active_connections, session_connections, pc, connection_id,
                session_id, audio_chunks, peer, msg, response_text, out, calls,
                turn, closed_by, dropped, lim>>
dbvars == <<db_conversations, db_messages, utcnow, uuid>>

At2(t, op, at) == task[t].op = op /\ task[t].pc = at
GoesOnSkipping(t, call, next) ==
  /\ task' = [task EXCEPT ![t].pc = "generate", ![t].calls = Append(@, call)]
  /\ ret' = NoRet

\* the request goes on to its next await, having made call
GoesOn(t, call, next) ==
  /\ task' = [task EXCEPT ![t].pc = next, ![t].calls = Append(@, call)]
  /\ ret' = NoRet
\* the request is answered: `return` or `raise HTTPException`
Responds(t, call, http, code) ==
  /\ ret' = [NoRet EXCEPT !.op = task[t].op, !.sid = task[t].sid, !.http = http,
                          !.err = code, !.made = task[t].made,
                          !.calls = IF call = "" THEN task[t].calls
                                    ELSE Append(task[t].calls, call)]
  /\ task' = [task EXCEPT ![t] = NoTask]

\* AudioProcessorService.validate_audio(audio_data, file_format)
ValidateUpload(audio, format) ==
  IF format \notin SupportedFormats THEN {"UNSUPPORTED_FORMAT"}
  ELSE ValidateOutcomes(audio)

\* voice_interaction up to validate_audio: `if not session_id:
\* session_id = await session_manager.create_session()` comes first
voice_interaction(t, s, audio, format) ==
  /\ Idle(t)
  /\ nturn < lim.turns
  /\ nturn' = nturn + 1
  /\ LET started == [NoTask EXCEPT !.op = "voice_interaction", !.pc = "validate",
                                   !.audio = audio, !.format = format]
     IN
     IF s # None
       THEN /\ task' = [task EXCEPT ![t] = [started EXCEPT !.sid = s]]
            /\ ret' = NoRet
            /\ UNCHANGED <<conversations, next_sid>>
       ELSE /\ next_sid < lim.sessions
            /\ \/ /\ conversations' = conversations \cup {next_sid + 1}
                  /\ next_sid' = next_sid + 1
                  /\ task' = [task EXCEPT ![t] =
                                [started EXCEPT !.sid = next_sid + 1,
                                                !.made = next_sid + 1,
                                                !.calls = <<"create_session">>]]
                  /\ ret' = NoRet
               \/ /\ Responds(t, "create_session", 500, "SESSION_CREATION_ERROR")
                  /\ UNCHANGED <<conversations, next_sid>>
  /\ UNCHANGED <<messages, streamvars, dbvars>>

\* audio_file.read() and validate_audio; AudioProcessingError is caught with
\* the other service errors and answered 500
vi_validate_audio(t) ==
  /\ At2(t, "voice_interaction", "validate")
  /\ \E r \in ValidateUpload(task[t].audio, task[t].format) :
       IF r = "ok" THEN GoesOn(t, "validate_audio", "transcribe")
       ELSE Responds(t, "validate_audio", 500, r)
  /\ UNCHANGED <<conversations, messages, next_sid, nturn, streamvars, dbvars>>

\* RateLimitError is none of the caught service errors: `except Exception`
Detail(code) == IF code = "RATE_LIMIT_EXCEEDED" THEN "Internal server error" ELSE code

vi_transcribe_audio(t) ==
  /\ At2(t, "voice_interaction", "transcribe")
  /\ \E r \in {"ok", "TRANSCRIPTION_ERROR", "RATE_LIMIT_EXCEEDED"} :
       IF r = "ok" THEN GoesOn(t, "transcribe_audio", "generate")
       ELSE Responds(t, "transcribe_audio", 500, Detail(r))
  /\ UNCHANGED <<conversations, messages, next_sid, nturn, streamvars, dbvars>>

\* generate_response: history read and engine call
vi_generate_response(t) ==
  /\ At2(t, "voice_interaction", "generate")
  /\ \E r \in {"ok", "RESPONSE_GENERATION_ERROR", "RATE_LIMIT_EXCEEDED"} :
       IF r = "ok" THEN GoesOn(t, "generate_response", "add_user")
       ELSE Responds(t, "generate_response", 500, Detail(r))
  /\ UNCHANGED <<conversations, messages, next_sid, nturn, streamvars, dbvars>>

\* generate_response: the two add_message calls
vi_add_message(t, type, next) ==
  /\ \/ /\ task[t].sid \in conversations
        /\ messages' = AddMessage(messages, task[t].sid, type, 0)
        /\ GoesOn(t, "add_message", next)
     \/ /\ Responds(t, "add_message", 500, "RESPONSE_GENERATION_ERROR")
        /\ UNCHANGED messages
  /\ UNCHANGED <<conversations, next_sid, nturn, streamvars, dbvars>>
vi_add_user(t) ==
  /\ At2(t, "voice_interaction", "add_user")
  /\ vi_add_message(t, "user", "add_assistant")
vi_add_assistant(t) ==
  /\ At2(t, "voice_interaction", "add_assistant")
  /\ vi_add_message(t, "assistant", "message_id")

\* get_conversation_history(session_id, limit=1) and `history[-1]["id"]`: the
\* list holds MessageResponse models, which cannot be subscripted (TypeError);
\* were it empty, ChatResponse(message=response_text) would reject the tuple
\* generate_response returned. Either way `except Exception` answers, and
\* synthesize_speech is not reached.
vi_message_id(t) ==
  /\ At2(t, "voice_interaction", "message_id")
  /\ Responds(t, "get_conversation_history", 500, "Internal server error")
  /\ UNCHANGED <<conversations, messages, next_sid, nturn, streamvars, dbvars>>

\* POST /speech-to-text: read, validate_audio (400 on AudioProcessingError)
transcribe_audio(t, audio, format) ==
  /\ Idle(t)
  /\ nturn < lim.turns
  /\ nturn' = nturn + 1
  /\ \E r \in ValidateUpload(audio, format) :
       IF r = "ok"
       THEN /\ task' = [task EXCEPT ![t] =
                          [NoTask EXCEPT !.op = "transcribe_audio", !.pc = "transcribe",
                                         !.audio = audio, !.format = format,
                                         !.calls = <<"validate_audio">>]]
            /\ ret' = NoRet
       ELSE /\ ret' = [NoRet EXCEPT !.op = "transcribe_audio", !.http = 400,
                                    !.err = r, !.calls = <<"validate_audio">>]
            /\ UNCHANGED task
  /\ UNCHANGED <<conversations, messages, next_sid, streamvars, dbvars>>

stt_transcribe_audio(t) ==
  /\ At2(t, "transcribe_audio", "transcribe")
  /\ \E r \in {"ok", "TRANSCRIPTION_ERROR", "RATE_LIMIT_EXCEEDED"} :
       Responds(t, "transcribe_audio", IF r = "ok" THEN 200 ELSE 500,
                IF r = "ok" THEN "" ELSE Detail(r))
  /\ UNCHANGED <<conversations, messages, next_sid, nturn, streamvars, dbvars>>

InitRest == Start /\ lim \in RestWorkloads
NextRest ==
  \/ \E t \in Tasks, s \in {None} \cup SessionIds, a \in Uploads, f \in Formats :
       voice_interaction(t, s, a, f)
  \/ \E t \in Tasks : vi_validate_audio(t)
  \/ \E t \in Tasks : vi_transcribe_audio(t)
  \/ \E t \in Tasks : vi_generate_response(t)
  \/ \E t \in Tasks : vi_add_user(t)
  \/ \E t \in Tasks : vi_add_assistant(t)
  \/ \E t \in Tasks : vi_message_id(t)
  \/ \E t \in Tasks, a \in Uploads, f \in Formats : transcribe_audio(t, a, f)
  \/ \E t \in Tasks : stt_transcribe_audio(t)
SpecRest == InitRest /\ [][NextRest]_vars

\* turns of both kinds: the streaming workloads and the one-shot workloads
InitTurns == Start /\ lim \in Workloads \cup RestWorkloads
NextTurns == Next \/ NextRest
SpecTurns == InitTurns /\ [][NextTurns]_vars

\* ------------------------------------------------------------ POST /chat
\* one streaming connection and two chat requests on the same tables
ChatWorkloads ==
  {[links |-> {1}, chunks |-> <<1, 0>>, sessions |-> 1, turns |-> MaxTurns,
    tasks |-> {1, 2}]}

\* chat up to generate_response: `if not session_id: session_id = await
\* session_manager.create_session()`
chat(t, s) ==
  /\ Idle(t)
  /\ nturn < lim.turns
  /\ nturn' = nturn + 1
  /\ LET started == [NoTask EXCEPT !.op = "chat", !.pc = "generate"]
     IN
     IF s # None
       THEN /\ task' = [task EXCEPT ![t] = [started EXCEPT !.sid = s]]
            /\ ret' = NoRet
            /\ UNCHANGED <<conversations, next_sid>>
       ELSE /\ next_sid < lim.sessions
            /\ \/ /\ conversations' = conversations \cup {next_sid + 1}
                  /\ next_sid' = next_sid + 1
                  /\ task' = [task EXCEPT ![t] =
                                [started EXCEPT !.sid = next_sid + 1,
                                                !.made = next_sid + 1,
                                                !.calls = <<"create_session">>]]
                  /\ ret' = NoRet
               \/ /\ Responds(t, "create_session", 500, "SESSION_CREATION_ERROR")
                  /\ UNCHANGED <<conversations, next_sid>>
  /\ UNCHANGED <<messages, streamvars, dbvars>>

\* generate_response: history read and engine call
chat_generate_response(t) ==
  /\ At2(t, "chat", "generate")
  /\ \E r \in {"ok", "RESPONSE_GENERATION_ERROR", "RATE_LIMIT_EXCEEDED"} :
       IF r = "ok" THEN GoesOn(t, "generate_response", "add_user")
       ELSE Responds(t, "generate_response", 500, Detail(r))
  /\ UNCHANGED <<conversations, messages, next_sid, nturn, streamvars, dbvars>>

\* generate_response: add_message(session_id, MessageType.USER, ...)
chat_add_user(t) ==
  /\ At2(t, "chat", "add_user")
  /\ vi_add_message(t, "user", "add_assistant")

\* generate_response: add_message(session_id, MessageType.ASSISTANT, ...),
\* then `return ChatResponse(...)`
chat_add_assistant(t) ==
  /\ At2(t, "chat", "add_assistant")
  /\ \/ /\ task[t].sid \in conversations
        /\ messages' = AddMessage(messages, task[t].sid, "assistant", 0)
        /\ Responds(t, "add_message", 200, "")
     \/ /\ Responds(t, "add_message", 500, "RESPONSE_GENERATION_ERROR")
        /\ UNCHANGED messages
  /\ UNCHANGED <<conversations, next_sid, nturn, streamvars, dbvars>>

InitChat == Start /\ lim \in ChatWorkloads
NextChat ==
  \/ Next
  \/ \E t \in Tasks, s \in {None} \cup SessionIds : chat(t, s)
  \/ \E t \in Tasks : chat_generate_response(t)
  \/ \E t \in Tasks : chat_add_user(t)
  \/ \E t \in Tasks : chat_add_assistant(t)
SpecChat == InitChat /\ [][NextChat]_vars

\* ------------------------------------------------- TextToSpeechService
\* A text is known by its length and by whether strip() leaves nothing.
MaxTextLen == 4096
AvailableVoices == {"alloy", "echo", "fable", "onyx", "nova", "shimmer"}
Str(s) == [kind |-> "str", s |-> s]
\* the truth value Python gives an Optional[str]
Truthy(v) == v.kind = "str" /\ v.s # ""
VoiceArgs == {PyNone, Str(""), Str("alloy"), Str("nova"), Str("shimmer"),
              Str("nonexistent"), Str("Alloy")}
TtsTexts == {[len |-> 0, blank |-> TRUE], [len |-> 1, blank |-> TRUE],
             [len |-> 5, blank |-> FALSE],
             [len |-> MaxTextLen + 1, blank |-> FALSE]}
\* settings.openai_settings.tts_voice is read from the environment
TtsWorkloads ==
  {[tasks |-> {1, 2}, tts_voice |-> d] : d \in {"alloy", "echo", "robot"}}

SelectVoiceAsGiven(voice, tts_voice) ==
  IF Truthy(voice) THEN voice.s ELSE tts_voice

\* `voice = voice or tts_voice`, then `if voice not in available_voices:
\* voice = tts_voice`
SelectVoice(voice, tts_voice) ==
  LET v == IF Truthy(voice) THEN voice.s ELSE tts_voice
  IN IF v \notin AvailableVoices THEN tts_voice ELSE v

\* synthesize_speech up to `await ...speech.with_streaming_response.create`.
\* TEXT_TOO_LONG and EMPTY_TEXT are raised inside the try block, so that
\* `except Exception` wraps them as SYNTHESIS_ERROR.
synthesize_speech(t, text, voice) ==
  /\ Idle(t)
  /\ "tts_voice" \in DOMAIN lim
  /\ LET v == SelectVoice(voice, lim.tts_voice)
         args == [text |-> text, voice |-> voice]
     IN
     IF text.len > MaxTextLen \/ text.blank
       THEN /\ ret' = [NoRet EXCEPT !.op = "synthesize_speech", !.args = args,
                                    !.voice = v, !.err = "SYNTHESIS_ERROR"]
            /\ UNCHANGED task
       ELSE /\ task' = [task EXCEPT ![t] =
                         [NoTask EXCEPT !.op = "synthesize_speech",
                                        !.pc = "create", !.args = args,
                                        !.voice = v,
                                        !.calls = <<"speech.create">>]]
            /\ ret' = NoRet
  /\ UNCHANGED <<wvars, dbvars>>

\* the awaited request ends: audio bytes, or HTTPStatusError (429 or
\* another status), or any other exception
tts_create(t) ==
  /\ At2(t, "synthesize_speech", "create")
  /\ \E o \in {"", "RATE_LIMIT_EXCEEDED", "API_ERROR", "SYNTHESIS_ERROR"} :
       ret' = [NoRet EXCEPT !.op = "synthesize_speech",
                            !.args = task[t].args, !.voice = task[t].voice,
                            !.calls = task[t].calls, !.err = o]
  /\ task' = [task EXCEPT ![t] = NoTask]
  /\ UNCHANGED <<wvars, dbvars>>

InitTts == Start /\ lim \in TtsWorkloads
NextTts ==
  \/ \E t \in Tasks, text \in TtsTexts, voice \in VoiceArgs :
       synthesize_speech(t, text, voice)
  \/ \E t \in Tasks : tts_create(t)
SpecTts == InitTts /\ [][NextTts]_vars

\* ------------------------------- SpeechToTextService._estimate_confidence
\* A text is a sequence of words; audio features are in thousandths, and a
\* feature that extract_audio_features left out is NoFeature.
NoFeature == 0 - 1
Words == {" ", "Hello", "[inaudible]", "[Unclear]", "..."}
ConfTexts == {<<>>} \cup {<<w>> : w \in Words}
               \cup {<<v, w>> : v \in Words, w \in Words}
RmsValues == {NoFeature, 0, 10, 11}
SilenceValues == {NoFeature, 0, 499, 500, 1000}
\* text.lower()
Lower(w) == IF w = "[Unclear]" THEN "[unclear]" ELSE w
\* len(text.strip()) > 0
NonEmpty(text) == \E i \in DOMAIN text : text[i] # " "
\* not any(phrase in text.lower() for phrase in [...])
Clean(text) ==
  ~ \E i \in DOMAIN text : Lower(text[i]) \in {"[inaudible]", "[unclear]", "..."}
\* audio_features.get("rms_energy", 0) > 0.01
Signal(rms) == (IF rms = NoFeature THEN 0 ELSE rms) > 10
\* audio_features.get("silence_ratio", 1.0) < 0.5
Voiced(ratio) == (IF ratio = NoFeature THEN 1000 ELSE ratio) < 500

EstimateConfidence(text, rms, ratio) ==
  LET c1 == IF NonEmpty(text) THEN FAdd(Half, Fifth) ELSE Half
      c2 == IF Clean(text) THEN FAdd(c1, Tenth) ELSE c1
      c3 == IF Signal(rms) THEN FAdd(c2, Tenth) ELSE c2
      c4 == IF Voiced(ratio) THEN FAdd(c3, Tenth) ELSE c3
  IN FMin(One, FMax(Zero, c4))

\* one call of the estimator, as transcribe_audio makes it
estimate_confidence(text, rms, ratio) ==
  /\ "estimator" \in DOMAIN lim
  /\ ret' = [NoRet EXCEPT !.op = "_estimate_confidence",
                          !.args = [text |-> text, rms |-> rms, ratio |-> ratio],
                          !.confidence = EstimateConfidence(text, rms, ratio)]
  /\ UNCHANGED <<wvars, dbvars, task>>

InitConf == Start /\ lim = [tasks |-> {}, estimator |-> TRUE]
NextConf ==
  \E text \in ConfTexts, rms \in RmsValues, ratio \in SilenceValues :
    estimate_confidence(text, rms, ratio)
SpecConf == InitConf /\ [][NextConf]_vars




\* =============================================================== claims
Types(log) == [i \in 1..Len(log) |-> log[i].ev.type]
Count(seq, x) == Cardinality({i \in 1..Len(seq) : seq[i] = x})
StageTypes == {StageOrder[i] : i \in 1..Len(StageOrder)}
IsStageOrError(t) == t \in StageTypes \cup {"error"}
\* the stage and error events a link has emitted for the message it handles
TurnEvents(l) == SelectSeq(Types(out[l]), IsStageOrError)
StagePrefix(k) == SubSeq(StageOrder, 1, k)

\* C1: the stage events emitted for one audio turn are a prefix of the fixed
\* order transcription_started .. interaction_completed, optionally followed
\* by one error event; no stage event comes before an earlier stage's event.
C1_StageOrder ==
  \A l \in Links :
    turn[l].kind = "audio" =>
      \E k \in 0..Len(StageOrder) :
        \/ TurnEvents(l) = StagePrefix(k)
        \/ TurnEvents(l) = StagePrefix(k) \o <<"error">>

\* an audio turn that got as far as audio_generation_started
C1_Witness ==
  \E l \in Links :
    /\ turn[l].kind = "audio"
    /\ pc[l] = "done"
    /\ TurnEvents(l) = StagePrefix(5) \o <<"error">>

\* the stage events a turn of the given kind may have emitted when the given
\* stage fails
AllowedAt(kind, stage) ==
  IF kind = "audio"
  THEN CASE stage = "validate" -> {}
         [] stage = "transcribe" -> {"transcription_started"}
         [] stage = "generate" -> {"transcription_started",
                                   "transcription_completed",
                                   "response_generation_started"}
         [] OTHER -> {"transcription_started", "transcription_completed",
                      "response_generation_started", "text_response",
                      "audio_generation_started"}
  ELSE CASE stage = "generate" -> {}
         [] OTHER -> {"text_response"}
PortOf(stage) ==
  CASE stage = "validate" -> "validate_audio"
    [] stage = "transcribe" -> "transcribe_audio"
    [] stage = "generate" -> "generate_response"
    [] OTHER -> "synthesize_speech"

\* C2: when a stage of a streaming turn (audio or text) fails, the turn is
\* over: the failed stage's port is the last one invoked, only events of the
\* stages up to the failed one were emitted, and exactly one error event was
\* emitted, after all of them.
C2_FailureAborts ==
  \A l \in Links :
    turn[l].failed # "none" =>
      LET ts == TurnEvents(l) IN
      /\ pc[l] = "done"
      /\ calls[l] # <<>> /\ calls[l][Len(calls[l])] = PortOf(turn[l].failed)
      /\ Count(calls[l], PortOf(turn[l].failed)) = 1
      /\ Count(ts, "error") = 1
      /\ ts[Len(ts)] = "error"
      /\ \A i \in 1..(Len(ts) - 1) : ts[i] \in AllowedAt(turn[l].kind, turn[l].failed)

\* an audio turn whose transcription failed after transcription_started
C2_Witness ==
  \E l \in Links :
    /\ turn[l].kind = "audio" /\ turn[l].failed = "transcribe"
    /\ TurnEvents(l) = <<"transcription_started", "error">>


AckTypes == {"session_initialized", "audio_chunk_received", "pong"}
IsAck(t) == t \in AckTypes
IsError(t) == t = "error"
\* the logical outcomes sent for the handled message: each ack, the turn's
\* result (its staged events, or its error) and each error outside a turn
Outcomes(l) ==
  Len(SelectSeq(Types(out[l]), IsAck))
  + (IF turn[l].kind # "none" THEN 1
     ELSE Len(SelectSeq(Types(out[l]), IsError)))

\* C3: every inbound message produces exactly one logical outcome (one ack,
\* one turn result or one error), never zero and never two.
C3_OneOutcome ==
  \A l \in Links :
    (pc[l] \in {"done", "closed"} /\ msg[l] # NoMsg) => Outcomes(l) = 1

\* C4: every error met while handling an inbound message is delivered as an
\* error event and leaves the receive loop running; only a transport-level
\* disconnect ends the loop.
C4_ErrorsKeepOpen ==
  \A l \in Links : pc[l] = "closed" => closed_by[l] = "transport"

\* C5: once disconnect() has run for a connection it is cleaned up and
\* terminal: when its loop has ended the id is not registered to it, no
\* session maps to it and the accumulator is gone, and a disconnected
\* connection waiting at receive_text takes no further inbound message; the
\* bound session stays in the store.
C5_DisconnectIsTerminal ==
  [][\A l \in Links :
       /\ (pc'[l] = "closed" /\ pc[l] # "closed") =>
            /\ active_connections'[connection_id[l]] = NoSock
            /\ \A s \in SessionIds : session_connections'[s] # connection_id[l]
            /\ audio_chunks'[l] = <<>>
            /\ conversations' = conversations
       /\ pc[l] = "closed" => pc'[l] = "closed"
       /\ (dropped[l] /\ pc[l] = "recv") => pc'[l] \in {"recv", "closed"}]_vars

\* the messages stored for the turn a link is running
NewMessages(l) ==
  LET OfTurn(m) == m.turn = turn[l].id
      mine == SelectSeq(messages, OfTurn)
  IN [i \in 1..Len(mine) |-> mine[i].type]

\* C6: generate_response is atomic: after a successful call exactly one user
\* and one assistant message of the turn are stored, after a failed call
\* none is.
C6_TurnAtomic ==
  \A l \in Links :
    /\ turn[l].gen = "ok" => NewMessages(l) = <<"user", "assistant">>
    /\ turn[l].gen = "failed" => NewMessages(l) = <<>>


Emitted(l, type) == \E i \in 1..Len(out[l]) : out[l][i].ev.type = type

\* C7: whenever a turn's text_response has been sent, the user and the
\* assistant message of that turn are already in the store.
C7_PersistBeforeResponse ==
  \A l \in Links :
    Emitted(l, "text_response") => NewMessages(l) = <<"user", "assistant">>

\* a text turn that answered
C7_Witness ==
  \E l \in Links : turn[l].kind = "text" /\ Emitted(l, "text_response")

IsPrefix(a, b) == Len(a) <= Len(b) /\ SubSeq(b, 1, Len(a)) = a

\* C8: a connection handles its inbound messages one at a time: a message is
\* taken only at receive_text, when the previous handler has returned and
\* nothing is pending; every event is sent while its message is being
\* handled, and a turn in flight runs to its end before the loop goes on;
\* whatever the other connection does in between.
C8_Sequential ==
  [][\A l \in Links :
       /\ (msg'[l] # msg[l] /\ msg'[l] # NoMsg) =>
            (pc[l] = "recv" /\ msg[l] = NoMsg /\ out[l] = <<>>
             /\ turn[l] = NoTurn)
       /\ out'[l] # out[l] =>
            (msg'[l] # NoMsg /\ (msg'[l] = msg[l] => IsPrefix(out[l], out'[l])))
            \/ (pc[l] = "done" /\ pc'[l] = "recv" /\ out'[l] = <<>>)
       /\ (InTurn(l) /\ pc'[l] # pc[l]) =>
            (msg'[l] = msg[l] /\ pc'[l] \in {"transcribe", "generate", "add_user",
                                            "add_assistant", "synthesize", "done"})
    ]_vars

\* one connection's turn is in flight, has sent events, and the other
\* connection has handled a ping in the meantime
C8_Witness ==
  \E l, k \in Links :
    /\ l # k
    /\ pc[l] = "add_user" /\ out[l] # <<>>
    /\ pc[k] = "done" /\ msg[k].type = "ping"

\* C9: the accumulator changes only by appending the decoded bytes of an
\* accepted audio_chunk at its end, or by being emptied by end_audio, by a
\* final chunk on a bound connection, or with the connection itself; every
\* other message leaves it as it is.
C9_AppendOnly ==
  [][\A l \in Links :
       LET a == audio_chunks[l]
           b == audio_chunks'[l]
           m == msg'[l]
       IN \/ b = a
          \/ /\ pc[l] = "recv" /\ m.type = "audio_chunk"
             /\ \E d \in Payloads :
                  B64Decode(d).ok /\ b = Append(a, B64Decode(d).bytes)
          \/ /\ b = <<>>
             /\ \/ m.type = "end_audio"
                \/ m.type = "audio_chunk" /\ m.is_final /\ session_id[l] # None
                \/ pc'[l] = "closed"
    ]_vars

\* two different chunks accumulated in arrival order
C9_Witness ==
  \E l \in Links :
    /\ audio_chunks[l] = <<<<65>>, <<66>>>>
    /\ msg[l].type = "audio_chunk" /\ pc[l] = "done"

\* the bytes of the chunks in arrival order
RECURSIVE InOrder(_, _)
InOrder(chunks, i) ==
  IF i > Len(chunks) THEN <<>> ELSE chunks[i] \o InOrder(chunks, i + 1)

EndAudioFlushes(l, nonempty) ==
  /\ (pc[l] = "recv" /\ msg'[l].type = "end_audio" /\ session_id[l] # None
      /\ nonempty) =>
       /\ turn'[l].kind = "audio"
       /\ turn'[l].input = InOrder(audio_chunks[l], 1)
       /\ nturn' = nturn + 1
  /\ (msg'[l].type = "end_audio" /\ pc'[l] = "done") =>
       /\ audio_chunks'[l] = <<>>
       /\ \A i, j \in 1..Len(calls'[l]) : calls'[l][i] = calls'[l][j] => i = j

\* C10 as stated: end_audio with a bound session and a non-empty accumulator
\* runs exactly one turn on the concatenation of the chunks in arrival order
\* and leaves the accumulator empty.
C10_EndAudioAsStated ==
  [][\A l \in Links : EndAudioFlushes(l, audio_chunks[l] # <<>>)]_vars

\* C10 amended: the same, for an accumulator that holds at least one byte;
\* when every accumulated chunk decoded to zero bytes no turn is run.
C10_EndAudioFlushes ==
  [][\A l \in Links :
       /\ EndAudioFlushes(l, InOrder(audio_chunks[l], 1) # <<>>)
       /\ (pc[l] = "recv" /\ msg'[l].type = "end_audio"
           /\ InOrder(audio_chunks[l], 1) = <<>>) =>
            (pc'[l] = "done" /\ turn'[l] = NoTurn /\ nturn' = nturn
             /\ audio_chunks'[l] = <<>>)
    ]_vars

\* end_audio has flushed two chunks as one turn
C10_Witness ==
  \E l \in Links :
    /\ msg[l].type = "end_audio" /\ pc[l] = "done"
    /\ turn[l].input = <<65, 66>>
    /\ audio_chunks[l] = <<>>


\* no port of the turn was failed by its engine: the turn has not failed, or
\* it failed in synthesize_speech on a value that never reached the engine
EnginesSucceeded(l) ==
  \/ turn[l].failed = "none"
  \/ turn[l].failed = "synthesize" /\ response_text[l].kind # "str"

\* C11: a final audio_chunk on a bound connection whose stages all succeed
\* is answered with all seven stage events, and the last message sent for
\* that chunk is interaction_completed.
C11_FinalChunkCompletes ==
  \A l \in Links :
    (msg[l].type = "audio_chunk" /\ msg[l].is_final /\ pc[l] = "done"
     /\ turn[l].kind = "audio" /\ EnginesSucceeded(l)) =>
      /\ TurnEvents(l) = StageOrder
      /\ Types(out[l])[Len(out[l])] = "interaction_completed"

\* the chunks the accumulator holds, this chunk included, when the ack of an
\* audio_chunk is sent: the handler appends before it acknowledges, and a
\* flushing turn keeps the list until it returns
ChunksSoFar(l) ==
  IF pc[l] = "recv" THEN Len(audio_chunks[l]) + 1 ELSE Len(audio_chunks[l])

\* C12: the ack of an accepted audio_chunk carries the number of chunks
\* accumulated since the last flush, this chunk included (for a final chunk:
\* the number of chunks flushed), and echoes is_final.
C12_AckCountsChunks ==
  [][\A l \in Links :
       (out'[l] # out[l] /\ out'[l] # <<>>
        /\ out'[l][Len(out'[l])].ev.type = "audio_chunk_received") =>
         /\ out'[l][Len(out'[l])].ev.n = ChunksSoFar(l)
         /\ out'[l][Len(out'[l])].ev.is_final = msg'[l].is_final
    ]_vars

\* C13: at most one session id of the session-to-connection table maps to a
\* given connection id.
C13_OneSessionPerConnection ==
  \A c \in ConnIds :
    Cardinality({s \in SessionIds : session_connections[s] = c}) <= 1

\* C14: once a connection is bound to a session its session id never changes
\* while the connection lives.
C14_BindingSetOnce ==
  [][\A l \in Links :
       (session_id[l] # None /\ pc'[l] # "closed") =>
         session_id'[l] = session_id[l]
    ]_vars


\* the send_message calls made in this step for link l
NewSends(l) == SubSeq(out'[l], Len(out[l]) + 1, Len(out'[l]))

\* a send_message of this step finds the id registered with a socket whose
\* peer is gone: send_text raises
SendFailed(l) ==
  /\ pc[l] \notin {"init", "closed"}
  /\ Len(out'[l]) > Len(out[l])
  /\ active_connections[connection_id[l]] # NoSock
  /\ peer[active_connections[connection_id[l]]] = "gone"

\* C15: when send_message finds the peer gone it cleans up as disconnect
\* does (the id leaves the registry, every session mapped to it leaves the
\* session table, nothing else changes), the message is attempted once and
\* dropped, and the caller goes on as after a successful send: the loop is
\* not ended by the failed send.
C15_SendFailureCleansUp ==
  [][\A l \in Links :
       SendFailed(l) =>
         LET c == connection_id[l] IN
         /\ active_connections' = [active_connections EXCEPT ![c] = NoSock]
         /\ \A s \in SessionIds :
              /\ session_connections'[s] # c
              /\ session_connections[s] # c =>
                   session_connections'[s] \in {session_connections[s], NoConn}
         /\ \A i \in 1..Len(NewSends(l)) : NewSends(l)[i].to = NoSock
         /\ pc'[l] = "closed" => closed_by'[l] = "error"
         /\ pc'[l] # "closed" => pc'[l] \in {"done", "transcribe", "generate",
                                              "synthesize"}
    ]_vars

\* the pong of a bound connection met a gone peer
C15_Witness ==
  \E l \in Links :
    /\ msg[l].type = "ping" /\ pc[l] = "done"
    /\ session_id[l] # None
    /\ Len(out[l]) = 1 /\ out[l][1].to = NoSock
    /\ dropped[l]
    /\ active_connections[connection_id[l]] = NoSock
    /\ \A s \in SessionIds : session_connections[s] # connection_id[l]

\* C16: once a send of a turn in flight has found the connection gone, the
\* turn goes on, every later send_message of the turn is a no-op written to
\* no socket, and the id is not registered to the connection again.
C16_LaterSendsDropped ==
  \A l \in Links :
    turn[l].kind # "none" =>
      \A i \in 1..Len(out[l]) :
        out[l][i].to = NoSock =>
          /\ \A j \in i..Len(out[l]) : out[l][j].to = NoSock
          /\ active_connections[connection_id[l]] # l


\* the handler of the message taken in this step answers with the single
\* event type, runs no turn and no port, stores nothing, leaves the bound
\* session and the accumulator as they are and returns to the loop; the two
\* tables change only if the send meets a gone peer
AnswersOnly(l, type) ==
  /\ Types(out'[l]) = <<type>>
  /\ pc'[l] = "done"
  /\ turn'[l] = NoTurn /\ calls'[l] = <<>>
  /\ session_id'[l] = session_id[l]
  /\ audio_chunks'[l] = audio_chunks[l]
  /\ conversations' = conversations /\ messages' = messages
  /\ ~SendFailed(l) =>
       /\ active_connections' = active_connections
       /\ session_connections' = session_connections
  /\ (active_connections[connection_id[l]] = l /\ peer[l] = "up") =>
       out'[l][1].to = l

\* C17: a message of an unrecognized type yields exactly one error event,
\* changes neither the bound session nor the accumulator nor the registry,
\* and the loop then goes back to receive the next message.
C17_UnknownTypeIsHarmless ==
  [][\A l \in Links :
       /\ (pc[l] = "recv" /\ msg'[l].type = "frobnicate") => AnswersOnly(l, "error")
       /\ (pc[l] = "done" /\ msg[l].type = "frobnicate") =>
            (pc'[l] = "recv" /\ session_id'[l] = session_id[l]
             /\ audio_chunks'[l] = audio_chunks[l])
    ]_vars

\* an unknown message answered on a bound connection that holds a chunk
C17_Witness ==
  \E l \in Links :
    /\ msg[l].type = "frobnicate" /\ pc[l] = "done"
    /\ session_id[l] # None /\ audio_chunks[l] # <<>>
    /\ Types(out[l]) = <<"error">> /\ out[l][1].to = l
    /\ active_connections[connection_id[l]] = l

\* C18: a ping yields exactly one pong and nothing else, in every binding
\* and accumulator state, and changes no connection, session or accumulator
\* state.
C18_PingPong ==
  [][\A l \in Links :
       (pc[l] = "recv" /\ msg'[l].type = "ping") => AnswersOnly(l, "pong")
    ]_vars

\* a ping answered on a bound connection that holds a chunk
C18_Witness ==
  \E l \in Links :
    /\ msg[l].type = "ping" /\ pc[l] = "done"
    /\ session_id[l] # None /\ audio_chunks[l] # <<>>
    /\ Types(out[l]) = <<"pong">> /\ out[l][1].to = l


\* C19: a text_message with text on a bound connection whose generation
\* succeeds is answered with exactly text_response and no Synthesis Port
\* call when include_audio is false or absent, and with text_response
\* followed by audio_response when include_audio is true.
C19_TextTurnEvents ==
  \A l \in Links :
    (msg[l].type = "text_message" /\ pc[l] = "done" /\ turn[l].gen = "ok"
     /\ EnginesSucceeded(l)) =>
      IF msg[l].include_audio
      THEN Types(out[l]) = <<"text_response", "audio_response">>
      ELSE /\ Types(out[l]) = <<"text_response">>
           /\ \A i \in 1..Len(calls[l]) : calls[l][i] # "synthesize_speech"

\* C20: a text_message on a connection without a bound session, or without
\* text, yields an error event, invokes neither generate_response nor
\* synthesize_speech and stores no message.
C20_TextNeedsSession ==
  [][\A l \in Links :
       (pc[l] = "recv" /\ msg'[l].type = "text_message"
        /\ (session_id[l] = None \/ msg'[l].text = "")) =>
         /\ Types(out'[l]) = <<"error">>
         /\ pc'[l] = "done"
         /\ turn'[l] = NoTurn /\ calls'[l] = <<>>
         /\ nturn' = nturn
         /\ messages' = messages
    ]_vars

\* a text_message with text refused on an unbound connection
C20_Witness ==
  \E l \in Links :
    /\ msg[l].type = "text_message" /\ msg[l].text = "Hello"
    /\ session_id[l] = None /\ pc[l] = "done"
    /\ Types(out[l]) = <<"error">>
    /\ messages = <<>>


LastCode(l) == out'[l][Len(out'[l])].ev.code

\* C24: a turn run for a session id that is not in the store fails with the
\* session-not-found kind: the error given to the client carries
\* SESSION_NOT_FOUND, not a generation-error kind.
C24_SessionNotFoundKind ==
  [][\A l \in Links :
       (pc[l] \in {"add_user", "add_assistant"}
        /\ session_id[l] \notin conversations /\ pc'[l] = "done") =>
         /\ turn'[l].failed = "generate"
         /\ "error" \in {Types(out'[l])[i] : i \in 1..Len(out'[l])}
         /\ \E i \in 1..Len(out'[l]) :
              out'[l][i].ev.type = "error" /\ out'[l][i].ev.code = "SESSION_NOT_FOUND"
    ]_vars

\* ---- claims on the session store (SpecStore)
StoreUnchanged == UNCHANGED <<db_conversations, db_messages>>
Wrote == Len(db_messages') = Len(db_messages) + 1
NewRow == db_messages'[Len(db_messages')]
\* a call of add_message by t starts in this step and finds no session
RejectsAdd == ret'.op = "add_message" /\ ret'.err = "SESSION_NOT_FOUND"

\* C25: add_message on a session id that does not exist fails with
\* SESSION_NOT_FOUND and leaves both tables as they were; and whenever a
\* Message row is written, the session it references exists at that moment.
C25_AddMessageNeedsSession ==
  [][/\ \A t \in Tasks, s \in SessionIds :
          (add_message(t, s) /\ ~Exists(s)) => (RejectsAdd /\ StoreUnchanged)
     /\ Wrote => Exists(NewRow.session_id) ]_vars

\* a list of rows was returned by the step just taken
ReturnedHistory == ret.op = "get_conversation_history" /\ ret.err = ""
Timestamp(i) == db_messages[i].timestamp
\* row i is older than row j in the order the claims call authoritative:
\* by timestamp, rows of equal timestamp by insertion
Before(i, j) ==
  Timestamp(i) < Timestamp(j) \/ (Timestamp(i) = Timestamp(j) /\ i < j)

\* C26: the list get_conversation_history returns has non-decreasing
\* timestamps, and messages of equal timestamp come in the order they were
\* inserted; the order is a fixed one, so a later append cannot change the
\* relative order of messages returned before.
C26_HistoryInInsertionOrder ==
  ReturnedHistory =>
    \A i, j \in 1..Len(ret.hist) : i < j => Before(ret.hist[i], ret.hist[j])
\* what does hold: the timestamps never descend
C26_TimestampsAscend ==
  ReturnedHistory =>
    \A i, j \in 1..Len(ret.hist) :
       i < j => Timestamp(ret.hist[i]) <= Timestamp(ret.hist[j])

\* C27: a returned history holds only messages of the session asked for, and
\* the whole history of a session (read with a limit no smaller than the
\* table) changes only in a step that commits a message addressed to that
\* very session: adding to, deleting or expiring another session never
\* changes it.
C27_SessionIsolation ==
  /\ [](ReturnedHistory =>
          \A i \in 1..Len(ret.hist) : db_messages[ret.hist[i]].session_id = ret.sid)
  /\ [][\A b \in SessionIds :
          (db_messages' # db_messages
           /\ Histories(b, MaxRows)' # Histories(b, MaxRows)) =>
            \E t \in Tasks : task[t].op = "add_message" /\ task[t].sid = b /\ Wrote]_vars
\* a history of one session is returned while another session holds messages
C27_Witness ==
  /\ ReturnedHistory /\ Len(ret.hist) > 0
  /\ \E i \in 1..Len(db_messages) : db_messages[i].session_id # ret.sid

\* the limit as the claim reads it: the one given, else max_conversation_history
EffectiveLimitAsGiven(limit) == IF limit = NoLimit THEN MaxHistory ELSE limit
\* the rows of hist are k distinct rows of session s, none older than a row
\* of s left out, in ascending order of timestamp
NewestFirstK(hist, s, k) ==
  LET got == {hist[i] : i \in 1..Len(hist)} IN
    /\ Len(hist) = k /\ Cardinality(got) = k
    /\ got \subseteq RowsOf(s)
    /\ \A r \in RowsOf(s) \ got, h \in got : Timestamp(r) <= Timestamp(h)
    /\ \A i, j \in 1..Len(hist) : i < j => Timestamp(hist[i]) <= Timestamp(hist[j])

Deleted == ret'.op = "delete_session" /\ ret'.err = ""
\* C29: once delete_session(s) has succeeded the session is gone (get_session
\* finds nothing), no message of s is left in table messages, hence in no
\* history, and every other session and its messages are as before; deleting
\* an id that does not exist succeeds and changes nothing.
C29_DeleteRemovesMessages ==
  [][Deleted =>
       LET s == ret'.sid IN
         /\ db_conversations'[s] = NoRow
         /\ \A i \in 1..Len(db_messages') : db_messages'[i].session_id # s
         /\ \A o \in SessionIds \ {s} : db_conversations'[o] = db_conversations[o]
         /\ \A i \in 1..Len(db_messages) :
              db_messages[i].session_id # s =>
                \E j \in 1..Len(db_messages') : db_messages'[j] = db_messages[i]
         /\ ~Exists(s) => StoreUnchanged ]_vars

\* the sweep of caller t commits in this step
Swept(t) ==
  /\ task[t].op = "cleanup_expired_sessions" /\ task'[t].op = "none"
  /\ ret'.op = "cleanup_expired_sessions" /\ ret'.err = ""
\* the sessions whose status the step changes
Changed == {s \in SessionIds : db_conversations'[s].status # db_conversations[s].status}

\* C30: cleanup_expired_sessions changes to expired exactly the sessions that
\* are active with updated_at older than the idle timeout, returns how many
\* it changed, deletes nothing and leaves every other session and every
\* message as it was; run again at once it finds nothing to expire.
C30_CleanupExpiresStale ==
  [][\A t \in Tasks :
       Swept(t) =>
         /\ Changed = {s \in SessionIds : Stale(s, task[t].expiry)}
         /\ \A s \in Changed : db_conversations'[s].status = "expired"
         /\ ret'.count = Cardinality(Changed)
         /\ \A s \in SessionIds \ Changed : db_conversations'[s] = db_conversations[s]
         /\ db_messages' = db_messages
         /\ {s \in SessionIds : Stale(s, task[t].expiry)}' = {} ]_vars

\* ---- claims on the one-shot endpoints (SpecRest)
ValidationKinds == {"UNSUPPORTED_FORMAT", "FILE_TOO_LARGE", "VALIDATION_ERROR",
                    "AUDIO_TOO_LONG"}
\* a one-shot request has just been answered with a validation error
RestRejected ==
  ret.op \in {"voice_interaction", "transcribe_audio"} /\ ret.err \in ValidationKinds
\* a streaming turn has failed validation
StreamRejected(l) == turn[l].failed = "validate"

\* C22: when validation of the audio fails the request fails with an
\* audio-validation kind and nothing upstream has been called for it: no
\* port, and no store operation, session creation included; on the streaming
\* path and on the speech-to-text and voice-interaction endpoints.
C22_ValidationFailsFast ==
  /\ RestRejected => (ret.calls = <<"validate_audio">> /\ ret.made = None)
  /\ \A l \in Links :
       StreamRejected(l) =>
         /\ calls[l] = <<"validate_audio">>
         /\ \E i \in 1..Len(out[l]) :
              out[l][i].ev.type = "error" /\ out[l][i].ev.code \in ValidationKinds
         /\ \A i \in 1..Len(messages) : messages[i].turn # turn[l].id

\* ---- claims on turns of both paths (SpecTurns)
PortOrder == <<"transcribe_audio", "generate_response", "synthesize_speech">>
IsPort(c) == c \in {PortOrder[i] : i \in 1..Len(PortOrder)}
PortsIn(cs) == SelectSeq(cs, IsPort)
\* the ports a turn of this kind goes through, in order
PortsOfKind(kind) == IF kind = "text" THEN Tail(PortOrder) ELSE PortOrder
Validated(cs, failed) == Count(cs, "validate_audio") = 1 /\ ~failed

\* C23: within one turn each port is invoked at most once, in the order
\* transcribe, generate, synthesize, none before the one ahead of it; after a
\* stage has failed the turn invokes nothing more; and once the audio has
\* passed validation the Transcription Port is invoked exactly once.
C23_PortsOnceInOrder ==
  /\ \A l \in Links :
       /\ IsPrefix(PortsIn(calls[l]), PortsOfKind(turn[l].kind))
       /\ turn[l].failed # "none" => ~InTurn(l)
       /\ (pc[l] = "done" /\ turn[l].kind = "audio"
           /\ Validated(calls[l], turn[l].failed = "validate")) =>
            Count(calls[l], "transcribe_audio") = 1
  /\ \A t \in Tasks : IsPrefix(PortsIn(task[t].calls), PortOrder)
  /\ IsPrefix(PortsIn(ret.calls), PortOrder)
  /\ (ret.op \in {"voice_interaction", "transcribe_audio"}
      /\ Validated(ret.calls, ret.err \in ValidationKinds)) =>
       Count(ret.calls, "transcribe_audio") = 1
\* a streaming audio turn that went through all three ports
C23_Witness ==
  \E l \in Links :
    /\ pc[l] = "done" /\ turn[l].kind = "audio"
    /\ PortsIn(calls[l]) = PortOrder
\* a voice-interaction request answered after transcription and generation
C23_WitnessOneShot ==
  /\ ret.op = "voice_interaction"
  /\ PortsIn(ret.calls) = SubSeq(PortOrder, 1, 2)

\* the voice the claim expects the Synthesis Port to receive
ExpectedVoice(voice, tts_voice) ==
  IF voice.kind = "str" /\ voice.s \in AvailableVoices THEN voice.s
  ELSE tts_voice
TextRefused(text) == text.len > MaxTextLen \/ text.blank

\* C31: synthesize_speech called with a voice outside {alloy, echo, fable,
\* onyx, nova, shimmer}, or with no voice, does not fail for that reason: the
\* Synthesis Port is invoked with the configured default voice; with a voice
\* inside the set the port is invoked with exactly that voice. Only a refused
\* text (too long, or blank) keeps the call from invoking the port.
C31_VoiceFallback ==
  /\ \A t \in Tasks :
       task[t].op = "synthesize_speech" =>
         /\ task[t].calls = <<"speech.create">>
         /\ task[t].voice = ExpectedVoice(task[t].args.voice, lim.tts_voice)
  /\ ret.op = "synthesize_speech" =>
       /\ ret.calls = <<>> <=> TextRefused(ret.args.text)
       /\ ret.calls # <<>> =>
            /\ ret.calls = <<"speech.create">>
            /\ ret.voice = ExpectedVoice(ret.args.voice, lim.tts_voice)

\* a call with the voice "nonexistent" came back with audio, synthesized
\* with the configured default voice
C31_Witness ==
  /\ ret.op = "synthesize_speech" /\ ret.err = ""
  /\ ret.args.voice = Str("nonexistent")
  /\ ret.calls = <<"speech.create">>
  /\ ret.voice = lim.tts_voice

\* ---- claims on the error answers of the one-shot endpoints (SpecRest)
UpstreamKinds == {"TRANSCRIPTION_ERROR", "RESPONSE_GENERATION_ERROR",
                  "SYNTHESIS_ERROR", "RATE_LIMIT_EXCEEDED"}
\* the last call a request made before it was answered with an error
FailedAt(call) ==
  /\ ret.op \in {"voice_interaction", "transcribe_audio"}
  /\ ret.http # 200
  /\ ret.calls # <<>> /\ ret.calls[Len(ret.calls)] = call

\* C32: on the speech-to-text and voice-interaction endpoints a failed audio
\* validation is answered with a client-error status (4xx), and a failure of
\* an upstream port (transcription, generation, synthesis, rate limiting)
\* with a server-error status (5xx) whose detail carries the error's kind.
C32_ErrorClasses ==
  /\ FailedAt("validate_audio") =>
       (ret.http \in 400..499 /\ ret.err \in ValidationKinds)
  /\ \A port \in {"transcribe_audio", "generate_response", "synthesize_speech"} :
       FailedAt(port) => (ret.http \in 500..599 /\ ret.err \in UpstreamKinds)

\* ---- claims on the confidence estimator (SpecConf)
\* the float nearest to n tenths, 5 <= n <= 10
Tenths(n) ==
  CASE n = 5 -> Half
    [] n = 6 -> Float(161061273, 161061272)
    [] n = 7 -> Float(187904819, 53687088)
    [] n = 8 -> Float(214748364, 214748368)
    [] n = 9 -> Float(241591910, 107374184)
    [] OTHER -> One
Bonus(cond, n) == IF cond THEN n ELSE 0
Estimated == ret.op = "_estimate_confidence"
Score ==
  5 + Bonus(NonEmpty(ret.args.text), 2) + Bonus(Clean(ret.args.text), 1)
    + Bonus(Signal(ret.args.rms), 1) + Bonus(Voiced(ret.args.ratio), 1)

\* C33: the estimator's result is in [0.0, 1.0] for every combination of its
\* four conditions; it equals 0.5 plus 0.2, 0.1, 0.1 and 0.1 for the conditions
\* that hold, and 1.0 when all four hold.
C33_ConfidenceScore ==
  Estimated =>
    /\ Leq(Zero, ret.confidence) /\ Leq(ret.confidence, One)
    /\ ret.confidence = Tenths(Score)
    /\ Score = 10 => ret.confidence = One

\* ---- claims on the accumulator at turn boundaries (Spec)
\* the audio_data values handle_audio_chunk rejects: missing or empty, or a
\* string that is no base64 (a single character never is)
Rejected(data) == data \in {"", "Q"}
Accepted(data) == data \in {"QQ==", "Qg==", "===="}
\* the bytes an accepted payload stands for
BytesOf(data) ==
  CASE data = "QQ==" -> <<65>> [] data = "Qg==" -> <<66>> [] OTHER -> <<>>

\* C34: a final audio_chunk that arrives while no session is bound runs no
\* turn and invokes no port: its bytes are appended to the accumulator, which
\* keeps every chunk, and one audio_chunk_received ack is sent; binding a
\* session afterwards leaves the accumulator alone, and the next flush takes
\* everything the accumulator holds.
C34_UnboundFinalChunk ==
  [][\A l \in Links :
       /\ \A d \in Payloads :
            (RecvAudioChunk(l, d, TRUE) /\ Accepted(d) /\ session_id[l] = None) =>
              /\ pc'[l] = "done"
              /\ turn'[l] = NoTurn /\ calls'[l] = <<>>
              /\ nturn' = nturn /\ messages' = messages
              /\ audio_chunks'[l] = Append(audio_chunks[l], BytesOf(d))
              /\ out'[l] # <<>>
              /\ Types(out'[l]) = <<"audio_chunk_received">>
              /\ out'[l][1].ev.is_final
       /\ (pc[l] = "recv" /\ msg'[l].type = "initialize_session"
           /\ pc'[l] # "closed") =>
            audio_chunks'[l] = audio_chunks[l]
       /\ (turn[l].kind # "audio" /\ turn'[l].kind = "audio") =>
            /\ turn'[l].input = InOrder(audio_chunks'[l], 1)
            /\ SubSeq(audio_chunks'[l], 1, Len(audio_chunks[l])) = audio_chunks[l]
    ]_vars

\* a final chunk was acknowledged as the second chunk of an unbound
\* connection, and both chunks are kept
C34_Witness ==
  \E l \in Links :
    /\ msg[l].type = "audio_chunk" /\ msg[l].is_final /\ pc[l] = "done"
    /\ session_id[l] = None
    /\ audio_chunks[l] = <<<<65>>, <<66>>>>
    /\ Types(out[l]) = <<"audio_chunk_received">>
    /\ turn[l] = NoTurn

\* link l has handled a turn boundary: end_audio, or an accepted final chunk
\* on a bound connection (its handler ends with the ack)
AtBoundary(l) ==
  /\ pc[l] = "done"
  /\ \/ msg[l].type = "end_audio"
     \/ /\ msg[l].type = "audio_chunk" /\ msg[l].is_final
        /\ session_id[l] # None
        /\ out[l] # <<>>
        /\ out[l][Len(out[l])].ev.type = "audio_chunk_received"

\* C37: after end_audio, or an accepted final audio_chunk on a bound
\* connection, has been handled the accumulator is empty, whether the turn
\* succeeded, failed at any stage or was not run, and it is still empty when
\* the loop takes the next message.
C37_BoundaryEmpties ==
  /\ [](\A l \in Links : AtBoundary(l) => audio_chunks[l] = <<>>)
  /\ [][\A l \in Links : AtBoundary(l) => audio_chunks'[l] = <<>>]_vars

\* a turn started by a final chunk failed in transcription and the
\* accumulator is empty
C37_Witness ==
  \E l \in Links :
    /\ AtBoundary(l) /\ msg[l].type = "audio_chunk"
    /\ turn[l].failed = "transcribe"
    /\ audio_chunks[l] = <<>>

\* C38: a rejected audio_chunk (audio_data missing or empty, or no base64)
\* yields one error event and no ack, leaves the accumulator as it was, runs
\* no turn even when it is marked final, and the receive loop goes on.
C38_RejectedChunk ==
  [][\A l \in Links :
       /\ \A d \in Payloads, fin \in BOOLEAN :
            (RecvAudioChunk(l, d, fin) /\ Rejected(d)) =>
              (AnswersOnly(l, "error") /\ nturn' = nturn)
       /\ (pc[l] = "done" /\ msg[l].type = "audio_chunk"
           /\ Types(out[l]) = <<"error">>) =>
            (pc'[l] = "recv" /\ audio_chunks'[l] = audio_chunks[l]
             /\ session_id'[l] = session_id[l])
    ]_vars

\* a final chunk was rejected on a bound connection that holds a chunk
C38_Witness ==
  \E l \in Links :
    /\ msg[l].type = "audio_chunk" /\ msg[l].is_final /\ pc[l] = "done"
    /\ session_id[l] # None /\ audio_chunks[l] = <<<<65>>>>
    /\ Types(out[l]) = <<"error">> /\ out[l][1].to = l
    /\ turn[l] = NoTurn
    /\ active_connections[connection_id[l]] = l

\* ---- claims on the registry with several connections (SpecDuo)
\* C35: every message sent while a connection handles one of its inbound
\* messages is written to that connection's own socket (or dropped, once the
\* connection is out of the registry), never to the socket of another
\* connection, also when two live connections use the same connection_id.
C35_OwnSocketOnly ==
  \A l \in Links :
    \A i \in 1..Len(out[l]) : out[l][i].to \in {l, NoSock}

\* the receive loop of link l is running
Looping(l) == pc[l] \notin {"init", "closed"}
\* link l takes this step
Steps(l) == pc'[l] # pc[l] \/ out'[l] # out[l] \/ msg'[l] # msg[l]

\* C36: every connection id the session table maps to is registered, a
\* connection whose receive loop is running is registered, and a step of one
\* connection that is not a connect never removes the registration or a
\* session mapping of another connection whose loop is running.
C36_RegistryConsistent ==
  /\ [](/\ \A s \in SessionIds :
            session_connections[s] # NoConn =>
              active_connections[session_connections[s]] # NoSock
        /\ \A l \in Links :
            Looping(l) => active_connections[connection_id[l]] # NoSock)
  /\ [][\A l, k \in Links :
          (l # k /\ Steps(l) /\ ~Steps(k) /\ pc[l] # "init" /\ Looping(k)) =>
            /\ active_connections[connection_id[k]] = k =>
                 active_connections'[connection_id[k]] = k
            /\ \A s \in SessionIds :
                 (session_id[k] = s /\ session_connections[s] = connection_id[k]) =>
                   session_connections'[s] = connection_id[k]
     ]_vars

\* ---- claims on concurrent turns of one session (SpecChat)
\* the types of the messages of session s, in insertion order
RECURSIVE TypesOf(_, _)
TypesOf(s, i) ==
  IF i > Len(messages) THEN <<>>
  ELSE (IF messages[i].session_id = s THEN <<messages[i].type>> ELSE <<>>)
       \o TypesOf(s, i + 1)
\* a turn on session s has stored its user message and not yet the other
Pending(s) ==
  \/ \E l \in Links : pc[l] = "add_assistant" /\ session_id[l] = s
  \/ \E t \in Tasks : task[t].pc = "add_assistant" /\ task[t].sid = s

\* C39: in every session's history the messages alternate user, assistant,
\* each user message being followed at once by the assistant message of its
\* turn (the last user message may wait for it while its turn is between the
\* two writes), for every interleaving of streaming turns and chat requests
\* on the session.
C39_Alternation ==
  \A s \in SessionIds :
    LET q == TypesOf(s, 1) IN
    /\ \A i \in 1..Len(q) : q[i] = IF i % 2 = 1 THEN "user" ELSE "assistant"
    /\ Len(q) % 2 = 1 => Pending(s)

====
